---------------------------- MODULE Spec2Model ----------------------------
(***************************************************************************)
(* Agent orchestration and self-correcting code-generation loop of the     *)
(* prototype page (src/src/app/prototype/[id]/page.tsx), the sandbox       *)
(* renderer (src/src/components/PrototypeRenderer.tsx) and the gateway     *)
(* stream they consume (src/src/app/api/agent/route.ts).                   *)
(*                                                                         *)
(* page.tsx holds several revisions of the page.  Two are modelled:        *)
(*   - the sendMessage page (lines 793-1168): messages / prototypeCode /   *)
(*     isLoading, guarded by isLoadingRef.  Specification PageSpec.        *)
(*   - the startAgentLoop page (lines 342-575): history / status /         *)
(*     currentCode, with closures over the state of a render.              *)
(*     Specification LoopSpec.                                             *)
(*                                                                         *)
(* React is modelled by what the code relies on: a setState call changes   *)
(* the state at once, the refs assigned in the component body              *)
(* (messagesRef.current = messages) and the values closed over by          *)
(* callbacks change only when the component renders, which is a step of    *)
(* its own (Render / LoopRender).  A render that follows a discrete DOM    *)
(* event (the chat form's submit) is flushed before any other task runs.   *)
(***************************************************************************)
EXTENDS Naturals, Integers, Sequences, FiniteSets, TLC

(***************************************************************************)
(* Bounds of the model.                                                    *)
(***************************************************************************)
\* sendMessage / startAgentLoop calls that reach the gateway in one session
MaxCalls == 2
\* events read from the gateway's streams in one session
MaxEvents == 2
\* messages one rendered code version posts to the host
MaxReports == 2
\* sandbox messages posted and not yet handled
MaxInbox == 2
\* distinct code strings the model can produce
NumCodes == 2
\* messages the user types in one session
MaxUser == 1
\* lines read from the streams of one session when the stream decoding is examined
MaxLines == 3
\* ids under which prototypes are stored, and the server clock's last value
NumIds == 2
MaxDate == 3
\* the clock stops at MaxTime ms and advances TickMs ms at a time
MaxTime == 3000
TickMs == 1000
\* requests the gateway route serves side by side
MaxRequests == 1
\* events one answer of the model is streamed as
MaxBody == 2

\* RetryState.max_attempts of the specification (its scenario B uses 3); no
\* revision of the page declares such a ceiling.
max_attempts == 3

Codes == 1..NumCodes

(***************************************************************************)
(* State.                                                                  *)
(***************************************************************************)
VARIABLES
    \* ---- sendMessage page: React state
    messages,            \* Message[]            page.tsx:802
    prototypeCode,       \* 0 is ""              page.tsx:803
    isLoading,           \*                      page.tsx:804
    cacheCheckComplete,  \*                      page.tsx:808
    isLoadedFromCache,   \*                      page.tsx:809
    \* ---- sendMessage page: refs and what the last render committed
    messagesRef,         \* page.tsx:812, assigned in the body (818)
    isLoadingRef,        \* page.tsx:813, assigned in the body (819)
    hasStarted,          \* page.tsx:814
    renderedDeps,        \* deps of the auto-start effect at the last render
    syncFlush,           \* a discrete event's updates await their synchronous render
    cachePc,             \* loadFromCache: "pending" | "done"
    userSent,            \* messages typed so far
    \* ---- calls that passed the guard and issued a fetch to /api/agent
    calls,
    nCalls,
    \* ---- sandbox (PrototypeRenderer)
    iframeCode,          \* code of the document last written to the iframe
    version,             \* number of documents written
    runDone,             \* run() of the current document has posted its outcome
    nPosted,             \* messages posted by the current document
    inbox,               \* posted to the host window, not yet handled
    \* ---- history variables of the retry policy
    attempt_count,       \* consecutive automatic turns since success / user message
    firstErr,            \* versions whose first error report arrived while current
    errSeen,             \* versions of which an error report was handled
    handled,             \* versions of which any report was handled
    superseded,          \* versions replaced by newer code before any report of theirs was handled
    successVer,          \* version whose success was reported since the last user message, or 0
    \* ---- startAgentLoop page: React state
    history,             \* page.tsx:349
    status,              \* "idle" | "thinking" | "executing"   page.tsx:351
    currentCode,         \* 0 is ""              page.tsx:352
    agentMessage,        \* page.tsx:353
    \* ---- startAgentLoop page: what callbacks closed over, and pending timers
    effectHistory,       \* history of the render whose effect installed messageHandler
    effectStatus,        \* status of that render
    timers,              \* setTimeout callbacks of handleRenderStatus, oldest first
    \* ---- server side
    route,               \* POST /api/agent, one activation per request
    \* ---- teardown
    unmounted,           \* the page's effect cleanups have run
    \* ---- auto-save of the sendMessage page
    now,                 \* the clock, in ms
    isSaved,             \* React state
    saveTimers,          \* setTimeout callbacks of the auto-save effect not yet run
    saveTimeoutRef,      \* saveTimeoutRef.current
    updates,             \* runs of the auto-save effect: when, and with which code
    writes,              \* POSTs to /api/prototypes issued, oldest first
    \* ---- prototype store (src/src/lib/db.ts)
    dbFile,              \* the prototypes of sciproto-db.json, by id
    dateNow,             \* Date.now() of the server
    lastSave,            \* the last savePrototype call: its arguments and the file before it
    \* ---- paper context of the sendMessage page
    paperContext,        \* "nohash": the URL has no hash; else "pending" | "loaded"
    \* ---- record of the sandbox's reports
    renderedOk,          \* the codes for which the sandbox has posted RENDER_SUCCESS
    \* ---- the response body between the route and the page's reader ----
    wire,                \* bytes the route has enqueued and the reader has not read
    written,             \* ghost: the events the route has written, in order
    acted                \* ghost: the events the stream loop has parsed and acted on

pageVars == <<messages, prototypeCode, isLoading, cacheCheckComplete,
              isLoadedFromCache, messagesRef, isLoadingRef, hasStarted,
              renderedDeps, syncFlush, cachePc, userSent>>
callVars == <<calls, nCalls>>
sandboxVars == <<iframeCode, version, runDone, nPosted, inbox>>
retryVars == <<attempt_count, firstErr, errSeen, handled, superseded, successVer>>
loopVars == <<history, status, currentCode, agentMessage, effectHistory, effectStatus,
              timers>>
serverVars == <<route>>
teardownVars == <<unmounted>>
saveVars == <<now, isSaved, saveTimers, saveTimeoutRef, updates, writes>>
storeVars == <<dbFile, dateNow, lastSave>>
startVars == <<paperContext>>
reportVars == <<renderedOk>>
framingVars == <<wire, written, acted>>
restVars == <<serverVars, teardownVars, saveVars, storeVars, startVars, reportVars, framingVars>>
vars == <<pageVars, callVars, sandboxVars, retryVars, loopVars, restVars>>

(***************************************************************************)
(* Messages and their transcript form.                                     *)
(***************************************************************************)
\* interface Message; functionCall 0 is undefined, else args.code of a
\* render_prototype call; functionResponse "none" is undefined.
Message(id, role, content, streaming, fc, fr) ==
    [id |-> id, role |-> role, content |-> content, isStreaming |-> streaming,
     functionCall |-> fc, functionResponse |-> fr]

\* crypto.randomUUID(): fresh ids, three per call
userMsgId(k) == 3 * k - 2
assistantMsgId(k) == 3 * k - 1
responseMsgId(k) == 3 * k

TextPart(t) == [kind |-> "text", text |-> t, code |-> 0, response |-> "none"]
CallPart(c) == [kind |-> "functionCall", text |-> <<>>, code |-> c, response |-> "none"]
ResponsePart(r) == [kind |-> "functionResponse", text |-> <<>>, code |-> 0, response |-> r]

\* one element of buildHistoryForApi's map
HistoryItem(m) ==
    LET textParts == IF m.content # <<>> THEN <<TextPart(m.content)>> ELSE <<>>
        callParts == IF m.functionCall # 0 THEN <<CallPart(m.functionCall)>> ELSE <<>>
        respParts == IF m.functionResponse # "none"
                     THEN <<ResponsePart(m.functionResponse)>> ELSE <<>>
        parts == textParts \o callParts \o respParts
    IN  [role |-> IF m.role = "assistant" THEN "model" ELSE "user",
         parts |-> IF parts = <<>> THEN <<TextPart(<<>>)>> ELSE parts]

buildHistoryForApi(msgs) == [i \in 1..Len(msgs) |-> HistoryItem(msgs[i])]

(***************************************************************************)
(* Persistence boundary as the page sees it: the entry /api/prototypes     *)
(* returns for this id, written by an earlier session's auto-save.         *)
(***************************************************************************)
\* the history a session stores after one successful generation of code 1
CachedHistory ==
    << [role |-> "user", parts |-> <<TextPart(<<"init">>)>>],
       [role |-> "model", parts |-> <<TextPart(<<"t">>), CallPart(1)>>],
       [role |-> "user", parts |-> <<ResponsePart("success")>>] >>
CachedCode == 1

\* h.parts?.find(p => p.<field>) of loadFromCache
FindPart(parts, kind) ==
    LET hits == {i \in 1..Len(parts) : parts[i].kind = kind}
    IN  IF hits = {} THEN 0 ELSE CHOOSE i \in hits : \A j \in hits : i <= j

\* ids `cached-${i}`
cachedMsgId(i) == 100 + i

\* cached.history.map(...) of loadFromCache
CachedMessages(items) ==
    [i \in 1..Len(items) |->
        LET h == items[i]
            t == FindPart(h.parts, "text")
            c == FindPart(h.parts, "functionCall")
            r == FindPart(h.parts, "functionResponse")
        IN  Message(cachedMsgId(i),
                    IF h.role = "model" THEN "assistant" ELSE "user",
                    IF t = 0 THEN <<>> ELSE h.parts[t].text,
                    FALSE,
                    IF c = 0 THEN 0 ELSE h.parts[c].code,
                    IF r = 0 THEN "none" ELSE h.parts[r].response)]

(***************************************************************************)
(* Gateway stream events, one NDJSON line each.                            *)
(***************************************************************************)
Event(type, code) == [type |-> type, code |-> code]
\* code 0: args.code is missing, empty, or only a code fence
Events == {Event("text", 0), Event("error", 0), Event("done", 0)}
          \cup {Event("tool_call", c) : c \in 0..NumCodes}
\* lines the client may read: the gateway's events; "malformed", a line
\* JSON.parse rejects (a fragment cut by a chunk boundary, or any other text);
\* "agent_failed", the body { error: "Agent failed", details } of the route's
\* HTTP 500 answer, which the client reads like a stream since it does not
\* look at res.ok
Lines == Events \cup {Event("malformed", 0), Event("agent_failed", 0)}

(***************************************************************************)
(* sendMessage page.                                                       *)
(***************************************************************************)
Call(kind, ver, sent, conv) ==
    [pc |-> "fetch", kind |-> kind, ver |-> ver, cur |-> version,
     afterSuccess |-> (successVer # 0 /\ successVer = version), accumulatedText |-> <<>>,
     receivedFunctionCall |-> 0, nread |-> 0, lines |-> <<>>, sent |-> sent,
     conv |-> conv]

\* sendMessage from its guard to `await fetch`.  ref and loadingRef are the
\* values messagesRef.current and isLoadingRef.current hold when it runs.
\* Leaves messages, isLoading, calls, nCalls and the retry history to it.
sendMessage(content, kind, ver, ref, loadingRef) ==
    IF loadingRef
    THEN UNCHANGED <<messages, isLoading, calls, nCalls, attempt_count, successVer>>
    ELSE LET k == nCalls + 1
             userMsg == Message(userMsgId(k), "user", content, FALSE, 0, "none")
             assistantMsg == Message(assistantMsgId(k), "assistant", <<>>, TRUE, 0, "none")
         IN  /\ messages' = messages \o <<userMsg, assistantMsg>>
             /\ isLoading' = TRUE
             /\ calls' = Append(calls,
                    Call(kind, ver, buildHistoryForApi(Append(ref, userMsg)), messages))
             /\ nCalls' = k
             /\ attempt_count' = IF kind = "auto" THEN attempt_count + 1 ELSE 0
             /\ successVer' = IF kind = "auto" THEN successVer ELSE 0

\* handlePrototypeError
handlePrototypeError(ver) ==
    IF ~isLoadingRef
    THEN sendMessage(<<"fix">>, "auto", ver, messagesRef, isLoadingRef)
    ELSE UNCHANGED <<messages, isLoading, calls, nCalls, attempt_count, successVer>>

\* ChatPanel.handleSubmit -> onSendMessage: a submit event, whose updates React
\* renders before the next task.
UserSend ==
    /\ ~syncFlush
    /\ ~isLoadingRef                 \* the form's isLoading prop, as rendered
    /\ userSent < MaxUser
    /\ nCalls < MaxCalls
    /\ sendMessage(<<"ask">>, "user", 0, messagesRef, isLoadingRef)
    /\ userSent' = userSent + 1
    /\ syncFlush' = TRUE
    /\ UNCHANGED <<prototypeCode, cacheCheckComplete, isLoadedFromCache, messagesRef,
                   isLoadingRef, hasStarted, renderedDeps, cachePc, firstErr, errSeen, handled, superseded>>
    /\ UNCHANGED <<sandboxVars, loopVars>>
    /\ UNCHANGED restVars

\* loadFromCache after its fetch settles.  hit: the store holds an entry with code.
loadFromCache(hit) ==
    /\ ~syncFlush
    /\ cachePc = "pending"
    /\ cachePc' = "done"
    /\ IF hit
       THEN /\ prototypeCode' = CachedCode
            /\ messages' = CachedMessages(CachedHistory)
            /\ isLoadedFromCache' = TRUE
            /\ hasStarted' = TRUE
       ELSE UNCHANGED <<prototypeCode, messages, isLoadedFromCache, hasStarted>>
    /\ cacheCheckComplete' = TRUE
    /\ UNCHANGED <<isLoading, messagesRef, isLoadingRef, renderedDeps, syncFlush, userSent>>
    /\ UNCHANGED <<callVars, sandboxVars, retryVars, loopVars>>
    /\ UNCHANGED restVars

\* the deps of the auto-start effect that change within a session
AutoStartDeps == <<cacheCheckComplete, isLoadedFromCache, paperContext>>

\* an auto-start effect that looks only at the cache check and the paper context
ShouldAutoStartUnguarded == cacheCheckComplete /\ paperContext # "pending"

\* the auto-start effect passes its early returns (title is always set)
ShouldAutoStart ==
    /\ cacheCheckComplete
    /\ ~(hasStarted \/ isLoadedFromCache)
    /\ paperContext # "pending"

Dirty ==
    \/ syncFlush
    \/ messagesRef # messages
    \/ isLoadingRef # isLoading
    \/ iframeCode # prototypeCode
    \/ renderedDeps # AutoStartDeps

\* the delay of the auto-save timer, in ms
SAVE_DELAY == 2000

\* saveTimeoutRef.current before the first setTimeout
NoTimer == [armed |-> 0 - 1, due |-> 0 - 1, code |-> 0, history |-> <<>>]

\* clearTimeout that cancels nothing
ClearNothing(pending, t) == pending

\* clearTimeout(t)
ClearTimeout(pending, t) == pending \ {t}

\* the auto-save effect of a render: when prototypeCode or messages differ
\* from those of the render before, the cleanup of the last run clears its
\* timer and the effect runs again; with no code it returns at once, else it
\* sets isSaved to false, clears and re-arms the timer.  The callback keeps
\* the prototypeCode and messages of this render.
autoSave ==
    IF prototypeCode # iframeCode \/ messages # messagesRef
    THEN /\ updates' = updates \cup {[at |-> now, code |-> prototypeCode]}
         /\ IF prototypeCode = 0
            THEN /\ saveTimers' = ClearTimeout(saveTimers, saveTimeoutRef)
                 /\ UNCHANGED <<isSaved, saveTimeoutRef>>
            ELSE LET t == [armed |-> now, due |-> now + SAVE_DELAY,
                           code |-> prototypeCode,
                           history |-> buildHistoryForApi(messages)]
                 IN  /\ isSaved' = FALSE
                     /\ saveTimers' = ClearTimeout(saveTimers, saveTimeoutRef) \cup {t}
                     /\ saveTimeoutRef' = t
    ELSE UNCHANGED <<isSaved, saveTimers, saveTimeoutRef, updates>>

\* One render of PrototypePage with the effects it schedules: the refs are
\* assigned, PrototypeRenderer's effect runs if code changed, the auto-start
\* effect runs if one of its deps changed.
Render ==
    /\ Dirty
    /\ nCalls < MaxCalls \/ hasStarted \/ ~cacheCheckComplete
    /\ syncFlush' = FALSE
    /\ messagesRef' = messages
    /\ isLoadingRef' = isLoading
    /\ renderedDeps' = AutoStartDeps
    /\ IF prototypeCode # iframeCode
       THEN /\ iframeCode' = prototypeCode
            /\ version' = version + 1
            /\ runDone' = FALSE
            /\ nPosted' = 0
            /\ superseded' = IF version > 0 /\ version \notin handled
                              THEN superseded \cup {version} ELSE superseded
       ELSE UNCHANGED <<iframeCode, version, runDone, nPosted, superseded>>
    /\ IF renderedDeps # AutoStartDeps /\ ShouldAutoStart
       THEN /\ hasStarted' = TRUE
            /\ sendMessage(<<"init">>, "init", 0, messages, isLoading)
       ELSE /\ UNCHANGED hasStarted
            /\ UNCHANGED <<messages, isLoading, calls, nCalls, attempt_count, successVer>>
    /\ autoSave
    /\ UNCHANGED <<prototypeCode, cacheCheckComplete, isLoadedFromCache, cachePc,
                   userSent, inbox, firstErr, errSeen, handled>>
    /\ UNCHANGED loopVars
    /\ UNCHANGED <<serverVars, teardownVars, storeVars, startVars, reportVars, framingVars, now, writes>>

Reading(k) == k \in 1..nCalls /\ calls[k].pc \in {"fetch", "read"}

RECURSIVE EventsRead(_)
EventsRead(n) == IF n = 0 THEN 0 ELSE calls[n].nread + EventsRead(n - 1)

\* prev.map(m => m.id === id ? { ...m, content: text } : m)
SetContent(msgs, id, text) ==
    [i \in 1..Len(msgs) |->
        IF msgs[i].id = id THEN [msgs[i] EXCEPT !.content = text] ELSE msgs[i]]

\* Accumulate with a line that fails to parse taken for plain text
AccumulateRawLine(text, ev) ==
    IF ev.type \in {"text", "malformed"} THEN Append(text, "t")
    ELSE IF ev.type = "error" THEN Append(text, "E")
    ELSE text

\* accumulatedText after the body of the per-line try block has run on ev; a
\* line that throws in JSON.parse reaches the empty catch with nothing done
Accumulate(text, ev) ==
    IF ev.type = "text" THEN Append(text, "t")
    ELSE IF ev.type = "error" THEN Append(text, "E")
    ELSE text

\* one pass of the stream loop: reader.read() yields a chunk holding the line ev;
\* limit bounds the events read in the session
ReadChunk(k, ev, limit) ==
    /\ ~syncFlush
    /\ Reading(k)
    /\ EventsRead(nCalls) < limit
    /\ LET c == calls[k]
           text == Accumulate(c.accumulatedText, ev)
           accepted == ev.type = "tool_call" /\ ev.code # 0
       IN  /\ calls' = [calls EXCEPT ![k] =
                   [c EXCEPT !.pc = "read",
                             !.nread = c.nread + 1,
                             !.lines = Append(c.lines, ev),
                             !.accumulatedText = text,
                             !.receivedFunctionCall =
                                 IF accepted THEN ev.code ELSE c.receivedFunctionCall]]
           /\ messages' = IF ev.type \in {"text", "error"}
                          THEN SetContent(messages, assistantMsgId(k), text)
                          ELSE messages
           /\ prototypeCode' = IF accepted THEN ev.code ELSE prototypeCode
    /\ UNCHANGED <<isLoading, cacheCheckComplete, isLoadedFromCache, messagesRef,
                   isLoadingRef, hasStarted, renderedDeps, syncFlush, cachePc, userSent,
                   nCalls>>
    /\ UNCHANGED <<sandboxVars, retryVars, loopVars>>
    /\ UNCHANGED restVars

\* prev.map(m => m.id === id ? { ...m, isStreaming: false, functionCall } : m)
Finalized(msgs, id, fc) ==
    [i \in 1..Len(msgs) |->
        IF msgs[i].id = id
        THEN [msgs[i] EXCEPT !.isStreaming = FALSE, !.functionCall = fc]
        ELSE msgs[i]]

\* reader.read() reports done: the finalizing setMessages, then finally
EndStream(k) ==
    /\ ~syncFlush
    /\ Reading(k)
    /\ LET fc == calls[k].receivedFunctionCall
           updated == Finalized(messages, assistantMsgId(k), fc)
           functionResponseMsg ==
               Message(responseMsgId(k), "user", <<>>, FALSE, 0, "success")
       IN  messages' = IF fc # 0 THEN Append(updated, functionResponseMsg) ELSE updated
    /\ isLoading' = FALSE
    /\ calls' = [calls EXCEPT ![k].pc = "done", ![k].accumulatedText = <<>>]
    /\ UNCHANGED <<prototypeCode, cacheCheckComplete, isLoadedFromCache, messagesRef,
                   isLoadingRef, hasStarted, renderedDeps, syncFlush, cachePc, userSent,
                   nCalls>>
    /\ UNCHANGED <<sandboxVars, retryVars, loopVars>>
    /\ UNCHANGED restVars

\* prev.map(m => m.id === id ? { ...m, content: "Failed ...", isStreaming: false } : m)
Failed(msgs, id) ==
    [i \in 1..Len(msgs) |->
        IF msgs[i].id = id
        THEN [msgs[i] EXCEPT !.content = <<"Failed">>, !.isStreaming = FALSE]
        ELSE msgs[i]]

\* fetch rejects, the response has no body, or reader.read() rejects: catch, finally
FetchFails(k) ==
    /\ ~syncFlush
    /\ Reading(k)
    /\ messages' = Failed(messages, assistantMsgId(k))
    /\ isLoading' = FALSE
    /\ calls' = [calls EXCEPT ![k].pc = "done", ![k].accumulatedText = <<>>]
    /\ UNCHANGED <<prototypeCode, cacheCheckComplete, isLoadedFromCache, messagesRef,
                   isLoadingRef, hasStarted, renderedDeps, syncFlush, cachePc, userSent,
                   nCalls>>
    /\ UNCHANGED <<sandboxVars, retryVars, loopVars>>
    /\ UNCHANGED restVars

(***************************************************************************)
(* Sandbox: the document PrototypeRenderer writes into the iframe.         *)
(***************************************************************************)
Report(type) == [type |-> type, ver |-> version]

CanPost == ~unmounted /\ version > 0 /\ nPosted < MaxReports /\ Len(inbox) < MaxInbox

\* run(): RENDER_SUCCESS after root.render, or RENDER_ERROR from its catch
PostRun(type) ==
    /\ ~syncFlush
    /\ CanPost
    /\ ~runDone
    /\ runDone' = TRUE
    /\ nPosted' = nPosted + 1
    /\ inbox' = Append(inbox, Report(type))
    /\ renderedOk' = IF type = "RENDER_SUCCESS" THEN renderedOk \cup {iframeCode}
                     ELSE renderedOk
    /\ UNCHANGED <<iframeCode, version>>
    /\ UNCHANGED <<pageVars, callVars, retryVars, loopVars>>
    /\ UNCHANGED <<serverVars, teardownVars, saveVars, storeVars, startVars, framingVars>>

\* window.onerror: any uncaught error of the document, before or after run() ends
PostOnError ==
    /\ ~syncFlush
    /\ CanPost
    /\ nPosted' = nPosted + 1
    /\ inbox' = Append(inbox, Report("RENDER_ERROR"))
    /\ UNCHANGED <<iframeCode, version, runDone>>
    /\ UNCHANGED <<pageVars, callVars, retryVars, loopVars>>
    /\ UNCHANGED restVars

\* messageHandler of PrototypeRenderer with the page's callbacks behind it:
\* onRenderStatus = PrototypePanel.handleRenderStatus, onError = handlePrototypeError
Deliver(limit) ==
    /\ ~syncFlush
    /\ inbox # <<>>
    /\ nCalls < limit
    /\ LET m == Head(inbox)
       IN  /\ inbox' = Tail(inbox)
           /\ handled' = handled \cup {m.ver}
           /\ UNCHANGED superseded
           /\ IF m.type = "RENDER_ERROR"
              THEN /\ handlePrototypeError(m.ver)
                   /\ errSeen' = errSeen \cup {m.ver}
                   /\ firstErr' = IF /\ m.ver = version
                                     /\ m.ver \notin errSeen
                                     /\ attempt_count < max_attempts
                                  THEN firstErr \cup {m.ver} ELSE firstErr
              ELSE /\ UNCHANGED <<messages, isLoading, calls, nCalls, errSeen, firstErr>>
                   /\ attempt_count' = 0
                   /\ successVer' = m.ver
    /\ UNCHANGED <<prototypeCode, cacheCheckComplete, isLoadedFromCache, messagesRef,
                   isLoadingRef, hasStarted, renderedDeps, syncFlush, cachePc, userSent>>
    /\ UNCHANGED <<iframeCode, version, runDone, nPosted>>
    /\ UNCHANGED loopVars
    /\ UNCHANGED restVars

(***************************************************************************)
(* The sendMessage page as a whole.                                        *)
(***************************************************************************)
\* db.prototypes[id] of a file with no entry under id
NoEntry == [code |-> 0, history |-> <<>>, created_at |-> 0, updated_at |-> 0]
Ids == 1..NumIds
EmptyDb == [i \in Ids |-> NoEntry]
NoSave == [id |-> 0, code |-> 0, history |-> <<>>, before |-> EmptyDb]

\* a line of the gateway's NDJSON answer
Line(type, retryable) == [type |-> type, retryable |-> retryable]

\* pc: "idle" | "calling" | "waiting" | "streaming" | "responded"
\* response: "none" | "ndjson" | "http500"; outcomes and waits record the
\* model calls made and the delays slept
IdleRequest ==
    [pc |-> "idle", attempt |-> 0, outcomes |-> <<>>, waits |-> <<>>,
     response |-> "none", body |-> <<>>]

InitWith(paper) ==
    /\ messages = <<>>
    /\ prototypeCode = 0
    /\ isLoading = FALSE
    /\ cacheCheckComplete = FALSE
    /\ isLoadedFromCache = FALSE
    /\ messagesRef = <<>>
    /\ isLoadingRef = FALSE
    /\ hasStarted = FALSE
    /\ renderedDeps = <<FALSE, FALSE, paper>>
    /\ paperContext = paper
    /\ renderedOk = {}
    /\ wire = <<>>
    /\ written = <<>>
    /\ acted = <<>>
    /\ syncFlush = FALSE
    /\ cachePc = "pending"
    /\ userSent = 0
    /\ calls = <<>>
    /\ nCalls = 0
    /\ iframeCode = 0
    /\ version = 0
    /\ runDone = FALSE
    /\ nPosted = 0
    /\ inbox = <<>>
    /\ attempt_count = 0
    /\ firstErr = {}
    /\ errSeen = {}
    /\ handled = {}
    /\ superseded = {}
    /\ successVer = 0
    /\ history = <<>>
    /\ status = "idle"
    /\ currentCode = 0
    /\ agentMessage = <<>>
    /\ effectHistory = <<>>
    /\ effectStatus = "idle"
    /\ timers = <<>>
    /\ route = [r \in 1..MaxRequests |-> IdleRequest]
    /\ unmounted = FALSE
    /\ now = 0
    /\ isSaved = TRUE
    /\ saveTimers = {}
    /\ saveTimeoutRef = NoTimer
    /\ updates = {}
    /\ writes = <<>>
    /\ dbFile = EmptyDb
    /\ dateNow = 1
    /\ lastSave = NoSave

\* a session whose URL carries no hash
Init == InitWith("nohash")

PageNext ==
    \/ UserSend
    \/ \E hit \in BOOLEAN : loadFromCache(hit)
    \/ Render
    \/ \E k \in 1..MaxCalls, ev \in Events : ReadChunk(k, ev, MaxEvents)
    \/ \E k \in 1..MaxCalls : EndStream(k)
    \/ \E k \in 1..MaxCalls : FetchFails(k)
    \/ \E type \in {"RENDER_SUCCESS", "RENDER_ERROR"} : PostRun(type)
    \/ PostOnError
    \/ Deliver(MaxCalls)

PageSpec == Init /\ [][PageNext]_vars

(***************************************************************************)
(* The same page in the environment of a failing repair: the store holds   *)
(* an entry, the gateway answers every turn with a render_prototype call,  *)
(* and every document the sandbox runs throws.  The session is followed    *)
(* for one automatic turn more than max_attempts.                          *)
(***************************************************************************)
RetryCalls == max_attempts + 1

RetryNext ==
    \/ loadFromCache(TRUE)
    \/ Render
    \/ \E k \in 1..RetryCalls, c \in Codes : ReadChunk(k, Event("tool_call", c), max_attempts)
    \/ \E k \in 1..RetryCalls : EndStream(k)
    \/ PostRun("RENDER_ERROR")
    \/ Deliver(RetryCalls)

RetrySpec == Init /\ [][RetryNext]_vars

(***************************************************************************)
(* The sendMessage page reading streams of arbitrary lines: the user's     *)
(* turns only, no stored entry, no sandbox traffic.                        *)
(***************************************************************************)
StreamNext ==
    \/ UserSend
    \/ Render
    \/ \E k \in 1..MaxCalls, ev \in Lines : ReadChunk(k, ev, MaxLines)
    \/ \E k \in 1..MaxCalls : EndStream(k)
    \/ \E k \in 1..MaxCalls : FetchFails(k)

StreamSpec == Init /\ [][StreamNext]_vars

(***************************************************************************)
(* The sendMessage page from mount to its first request: the cache lookup  *)
(* and, when the URL carries a hash, the fetch of the paper text settle in  *)
(* either order, among renders and user messages.                          *)
(***************************************************************************)
\* the paper-context effect's fetch finds the paper: setPaperContext
PaperLoaded ==
    /\ ~syncFlush
    /\ paperContext = "pending"
    /\ paperContext' = "loaded"
    /\ UNCHANGED <<pageVars, callVars, sandboxVars, retryVars, loopVars, serverVars,
                   teardownVars, saveVars, storeVars, reportVars, framingVars>>

StartInit == \E paper \in {"nohash", "pending"} : InitWith(paper)

StartNext ==
    \/ \E hit \in BOOLEAN : loadFromCache(hit)
    \/ PaperLoaded
    \/ UserSend
    \/ Render
    \/ \E k \in 1..MaxCalls, ev \in Events : ReadChunk(k, ev, MaxEvents)
    \/ \E k \in 1..MaxCalls : EndStream(k)
    \/ \E k \in 1..MaxCalls : FetchFails(k)

StartSpec == StartInit /\ [][StartNext]_vars

(***************************************************************************)
(* The sendMessage page with its auto-save running: time passes, and a     *)
(* timer that is due runs before the clock moves on.                       *)
(***************************************************************************)
\* the clock moves on by TickMs, or to the instant the next timer is due
NextInstant ==
    LET soon == {t.due : t \in saveTimers} \cap (now .. now + TickMs)
    IN  IF soon = {} THEN now + TickMs ELSE CHOOSE x \in soon : \A y \in soon : x <= y

Tick ==
    /\ ~syncFlush
    /\ ~Dirty
    /\ now < MaxTime
    /\ \A t \in saveTimers : now < t.due
    /\ now' = NextInstant
    /\ UNCHANGED <<isSaved, saveTimers, saveTimeoutRef, updates, writes>>
    /\ UNCHANGED <<pageVars, callVars, sandboxVars, retryVars, loopVars, serverVars,
                   teardownVars, storeVars, startVars, reportVars, framingVars>>

\* what the conversation is after the callback's catch has logged the error
SaveFailureShown(msgs) ==
    Append(msgs, Message(0, "assistant", <<"Failed">>, FALSE, 0, "none"))

\* the callback's catch: console.error, nothing else
SaveFailureLogged(msgs) == msgs

\* outcome of the POST to /api/prototypes: "ok"; "unwritten", answered 200
\* though writeFileSync threw inside writeDb's try; "http500", savePrototype
\* threw; "rejected", fetch itself rejects
SaveOutcomes == {"ok", "unwritten", "http500", "rejected"}

\* the setTimeout callback of the auto-save effect
SaveFires(t, outcome) ==
    /\ ~syncFlush
    /\ t \in saveTimers
    /\ t.due <= now
    /\ saveTimers' = saveTimers \ {t}
    /\ writes' = Append(writes, [at |-> now, armed |-> t.armed, code |-> t.code,
                                 history |-> t.history, outcome |-> outcome])
    /\ IF outcome = "rejected"
       THEN /\ messages' = SaveFailureLogged(messages)
            /\ UNCHANGED isSaved
       ELSE /\ isSaved' = TRUE
            /\ UNCHANGED messages
    /\ UNCHANGED <<now, saveTimeoutRef, updates>>
    /\ UNCHANGED <<prototypeCode, isLoading, cacheCheckComplete, isLoadedFromCache,
                   messagesRef, isLoadingRef, hasStarted, renderedDeps, syncFlush,
                   cachePc, userSent>>
    /\ UNCHANGED <<callVars, sandboxVars, retryVars, loopVars, serverVars, teardownVars,
                   storeVars, startVars, reportVars, framingVars>>

SaveNext ==
    \/ \E hit \in BOOLEAN : loadFromCache(hit)
    \/ Render
    \/ \E k \in 1..MaxCalls, ev \in Events : ReadChunk(k, ev, MaxEvents)
    \/ \E k \in 1..MaxCalls : EndStream(k)
    \/ Tick
    \/ \E t \in saveTimers, outcome \in SaveOutcomes : SaveFires(t, outcome)

SaveSpec == Init /\ [][SaveNext]_vars

(***************************************************************************)
(* startAgentLoop page (page.tsx 342-575).  history holds the transcript   *)
(* items themselves.  startAgentLoop and the onRenderStatus callback read  *)
(* `history` and `status` of the render that created them, not the state.  *)
(***************************************************************************)
Item(role, parts) == [role |-> role, parts |-> parts]

\* lines of the stream this page reads; any other line is parsed and ignored
LoopEvents == {Event("text", 0), Event("error", 0)}
              \cup {Event("tool_call_part", c) : c \in 0..NumCodes}

\* enhancedResponse of the route: a failed render's response gets a hint
Enhanced(response) == IF response = "error" THEN "error_hint" ELSE response

\* the route's contents for a request body { history, message,
\* functionResponse } (no paperContext is sent by this page): the history,
\* then the message as a user item, then the function response as a tool item
RouteContents(hist, message, functionResponse) ==
    hist
    \o (IF message # <<>> THEN <<Item("user", <<TextPart(message)>>)>> ELSE <<>>)
    \o (IF functionResponse # "none"
        THEN <<Item("tool", <<ResponsePart(Enhanced(functionResponse))>>)>> ELSE <<>>)

\* contents: what the route hands to the model for this request
LoopCall(kind, ver, s, sent, newItems, message, functionResponse) ==
    [pc |-> "fetch", kind |-> kind, ver |-> ver, status |-> s,
     accumulatedText |-> <<>>, nread |-> 0, sent |-> sent, conv |-> history,
     newItems |-> newItems,
     contents |-> RouteContents(sent, message, functionResponse)]

\* startAgentLoop from its first line to `await fetch` (no signal is aborted
\* while the page is mounted).  h and s are `history` and `status` as the
\* closure that runs it captured them.
startAgentLoop(userMessage, functionResponse, kind, ver, h, s) ==
    LET userItems == IF userMessage # <<>>
                     THEN <<Item("user", <<TextPart(userMessage)>>)>> ELSE <<>>
        toolItems == IF functionResponse # "none"
                     THEN <<Item("tool", <<ResponsePart(functionResponse)>>)>> ELSE <<>>
        newItems == userItems \o toolItems
        currentHistory == h \o newItems
    IN  /\ status' = "thinking"
        /\ agentMessage' = <<>>
        /\ history' = IF newItems # <<>> THEN currentHistory ELSE history
        /\ calls' = Append(calls, LoopCall(kind, ver, s, currentHistory, newItems,
                                           userMessage, functionResponse))
        /\ nCalls' = nCalls + 1

\* the kick-off effect of the first render
Kickoff ==
    /\ ~unmounted
    /\ Len(history) = 0
    /\ ~hasStarted
    /\ hasStarted' = TRUE
    /\ startAgentLoop(<<"init">>, "none", "init", 0, <<>>, "idle")
    /\ UNCHANGED <<messages, prototypeCode, isLoading, cacheCheckComplete,
                   isLoadedFromCache, messagesRef, isLoadingRef, renderedDeps,
                   syncFlush, cachePc, userSent>>
    /\ UNCHANGED <<currentCode, effectHistory, effectStatus, timers>>
    /\ UNCHANGED <<sandboxVars, retryVars>>
    /\ UNCHANGED restVars

\* one pass of the stream loop over a chunk holding the line ev
LoopReadChunk(k, ev) ==
    /\ Reading(k)
    /\ EventsRead(nCalls) < MaxEvents
    /\ LET c == calls[k]
           text == IF ev.type = "text" THEN Append(c.accumulatedText, "t")
                   ELSE c.accumulatedText
           part == CallPart(ev.code)
       IN  /\ calls' = [calls EXCEPT ![k] =
                   [c EXCEPT !.pc = "read", !.nread = c.nread + 1,
                             !.accumulatedText = text]]
           /\ agentMessage' = IF ev.type = "text" THEN text ELSE agentMessage
           /\ IF ev.type = "tool_call_part"
              THEN /\ status' = "executing"
                   /\ history' = Append(history,
                          Item("model", IF c.accumulatedText # <<>>
                                        THEN <<TextPart(c.accumulatedText), part>>
                                        ELSE <<part>>))
                   /\ currentCode' = IF ev.code # 0 THEN ev.code ELSE currentCode
              ELSE UNCHANGED <<status, history, currentCode>>
    /\ UNCHANGED <<nCalls, effectHistory, effectStatus, timers>>
    /\ UNCHANGED <<pageVars, sandboxVars, retryVars>>
    /\ UNCHANGED restVars

\* reader.read() reports done: "End of stream - Text only case"
LoopEndStream(k) ==
    /\ Reading(k)
    /\ LET c == calls[k]
       IN  IF c.status # "executing"
           THEN /\ status' = "idle"
                /\ history' = IF c.accumulatedText # <<>>
                              THEN Append(history,
                                       Item("model", <<TextPart(c.accumulatedText)>>))
                              ELSE history
           ELSE UNCHANGED <<status, history>>
    /\ calls' = [calls EXCEPT ![k].pc = "done", ![k].accumulatedText = <<>>]
    /\ UNCHANGED <<nCalls, currentCode, agentMessage, effectHistory, effectStatus, timers>>
    /\ UNCHANGED <<pageVars, sandboxVars, retryVars>>
    /\ UNCHANGED restVars

\* fetch rejects, the response has no body, or reader.read() rejects: catch
LoopFetchFails(k) ==
    /\ Reading(k)
    /\ agentMessage' = <<"Failed">>
    /\ status' = "idle"
    /\ calls' = [calls EXCEPT ![k].pc = "done", ![k].accumulatedText = <<>>]
    /\ UNCHANGED <<nCalls, history, currentCode, effectHistory, effectStatus, timers>>
    /\ UNCHANGED <<pageVars, sandboxVars, retryVars>>
    /\ UNCHANGED restVars

\* a render that passes new code to PrototypeRenderer: its effect writes the
\* document and installs a messageHandler over this render's onRenderStatus
LoopRender ==
    /\ ~unmounted
    /\ currentCode # iframeCode
    /\ iframeCode' = currentCode
    /\ version' = version + 1
    /\ runDone' = FALSE
    /\ nPosted' = 0
    /\ effectHistory' = history
    /\ effectStatus' = status
    /\ UNCHANGED <<inbox, history, status, currentCode, agentMessage, timers>>
    /\ UNCHANGED <<pageVars, callVars, retryVars>>
    /\ UNCHANGED restVars

Timer(type, ver) ==
    [type |-> type, ver |-> ver, history |-> effectHistory, status |-> effectStatus]

\* messageHandler -> the inline onRenderStatus guard -> handleRenderStatus,
\* which only arms its timer
LoopDeliver ==
    /\ ~unmounted                   \* the listener is installed
    /\ inbox # <<>>
    /\ LET m == Head(inbox)
           s == IF m.type = "RENDER_ERROR" THEN "error" ELSE "success"
       IN  /\ inbox' = Tail(inbox)
           /\ timers' = IF effectStatus = "executing"
                        THEN Append(timers, Timer(s, m.ver)) ELSE timers
    /\ UNCHANGED <<iframeCode, version, runDone, nPosted>>
    /\ UNCHANGED <<history, status, currentCode, agentMessage, effectHistory, effectStatus>>
    /\ UNCHANGED <<pageVars, callVars, retryVars>>
    /\ UNCHANGED restVars

\* the setTimeout callback of handleRenderStatus, 1000 ms later
TimerFires ==
    /\ timers # <<>>
    /\ LET t == Head(timers)
       IN  /\ timers' = Tail(timers)
           /\ IF t.type = "success"
              THEN /\ status' = "idle"
                   /\ agentMessage' = <<"Ready">>
                   /\ history' = Append(history, Item("tool", <<ResponsePart("success")>>))
                   /\ UNCHANGED callVars
              ELSE /\ nCalls < MaxCalls
                   /\ startAgentLoop(<<>>, "error", "auto", t.ver, t.history, t.status)
    /\ UNCHANGED <<currentCode, effectHistory, effectStatus>>
    /\ UNCHANGED <<pageVars, sandboxVars, retryVars>>
    /\ UNCHANGED restVars

LoopNext ==
    \/ Kickoff
    \/ \E k \in 1..MaxCalls, ev \in LoopEvents : LoopReadChunk(k, ev)
    \/ \E k \in 1..MaxCalls : LoopEndStream(k)
    \/ \E k \in 1..MaxCalls : LoopFetchFails(k)
    \/ LoopRender
    \/ \E type \in {"RENDER_SUCCESS", "RENDER_ERROR"} : PostRun(type)
    \/ PostOnError
    \/ LoopDeliver
    \/ TimerFires

LoopSpec == Init /\ [][LoopNext]_vars

(***************************************************************************)
(* Teardown of the startAgentLoop page: the cleanups of the kick-off       *)
(* effect (controller.abort()) and of PrototypeRenderer's effect           *)
(* (removeEventListener) run; nothing clears the handleRenderStatus timers.*)
(* Only the kick-off call was handed the signal.  What runs afterwards     *)
(* still calls the state setters; the variables then hold what those calls *)
(* were given.                                                             *)
(***************************************************************************)
\* the request and stream read of call c end with the signal: fetch or
\* reader.read() rejects with AbortError and the catch returns, or the loop
\* breaks and the end-of-stream block is skipped
Aborted(c) == [c EXCEPT !.pc = "aborted", !.accumulatedText = <<>>]

Unmount ==
    /\ ~unmounted
    /\ unmounted' = TRUE
    /\ calls' = [k \in 1..nCalls |->
                    IF calls[k].kind = "init" /\ calls[k].pc \in {"fetch", "read"}
                    THEN Aborted(calls[k]) ELSE calls[k]]
    /\ UNCHANGED <<nCalls, serverVars, saveVars, storeVars, startVars, reportVars, framingVars>>
    /\ UNCHANGED <<pageVars, sandboxVars, retryVars, loopVars>>

\* once unmounted no render, effect, iframe or message listener is left
\* (Kickoff, LoopRender, PostRun, PostOnError and LoopDeliver are disabled);
\* pending timers and the reads that were not aborted go on
TeardownNext ==
    \/ LoopNext
    \/ Unmount

TeardownSpec == Init /\ [][TeardownNext]_vars

(***************************************************************************)
(* React Strict Mode, or a change of `description` alone: the kick-off     *)
(* effect's cleanup runs and the effect runs again in the same component,  *)
(* whose state and refs are kept.                                          *)
(***************************************************************************)
\* the kick-off effect runs again after its cleanup, with the history of the
\* closure it was created in
Remount ==
    /\ unmounted
    /\ unmounted' = FALSE
    /\ IF Len(effectHistory) = 0 /\ ~hasStarted
       THEN /\ hasStarted' = TRUE
            /\ startAgentLoop(<<"init">>, "none", "init", 0, <<>>, "idle")
       ELSE UNCHANGED <<hasStarted, status, agentMessage, history, calls, nCalls>>
    /\ UNCHANGED <<messages, prototypeCode, isLoading, cacheCheckComplete,
                   isLoadedFromCache, messagesRef, isLoadingRef, renderedDeps,
                   syncFlush, cachePc, userSent>>
    /\ UNCHANGED <<currentCode, effectHistory, effectStatus, timers>>
    /\ UNCHANGED <<sandboxVars, retryVars>>
    /\ UNCHANGED <<serverVars, saveVars, storeVars, startVars, reportVars, framingVars>>

StrictModeNext ==
    \/ TeardownNext
    \/ Remount

StrictModeSpec == Init /\ [][StrictModeNext]_vars

(***************************************************************************)
(* Prototype store: src/src/lib/db.ts.  Every function reads the whole     *)
(* file and savePrototype writes it whole.                                 *)
(***************************************************************************)
\* readDb: the prototypes of the file, or none when reading or parsing throws
readDb(ok) == IF ok THEN dbFile ELSE EmptyDb

\* getPrototype: db.prototypes[id] || null, NoEntry standing for null
getPrototype(id, ok) == readDb(ok)[id]

\* what the POST of /api/prototypes passes as data.code and data.history
SavedCodes == 0..NumCodes
SavedHistories == {<<>>, CachedHistory}

\* savePrototype(id, data); readOk, writeOk: readFileSync / writeFileSync do
\* not throw (writeDb catches the error of a failed write)
savePrototype(id, code, hist, readOk, writeOk) ==
    /\ LET db == readDb(readOk)
           existing == db[id]
           entry == [code |-> code, history |-> hist,
                     created_at |-> IF existing.created_at # 0
                                    THEN existing.created_at ELSE dateNow,
                     updated_at |-> dateNow]
       IN  dbFile' = IF writeOk THEN [db EXCEPT ![id] = entry] ELSE dbFile
    /\ lastSave' = [id |-> id, code |-> code, history |-> hist, before |-> dbFile]
    /\ UNCHANGED dateNow
    /\ UNCHANGED <<pageVars, callVars, sandboxVars, retryVars, loopVars, serverVars,
                   teardownVars, saveVars, startVars, reportVars, framingVars>>

\* time passes on the server
DateAdvances ==
    /\ dateNow < MaxDate
    /\ dateNow' = dateNow + 1
    /\ UNCHANGED <<dbFile, lastSave>>
    /\ UNCHANGED <<pageVars, callVars, sandboxVars, retryVars, loopVars, serverVars,
                   teardownVars, saveVars, startVars, reportVars, framingVars>>

StoreNext ==
    \/ \E id \in Ids, code \in SavedCodes, hist \in SavedHistories, readOk, writeOk \in BOOLEAN :
           savePrototype(id, code, hist, readOk, writeOk)
    \/ DateAdvances

StoreSpec == Init /\ [][StoreNext]_vars

(***************************************************************************)
(* Gateway route: POST of src/src/app/api/agent/route.ts, from the retry   *)
(* loop around generateContentStream to the response it returns.           *)
(***************************************************************************)
MAX_RETRIES == 3
RETRY_DELAYS == <<1000, 2000, 4000>>

\* what one generateContentStream call can end with: a stream, or an error
\* with status 503, with "overloaded" or "503" in its message, or any other
ModelOutcomes == {"ok", "status503", "overloaded", "msg503", "other"}

\* isOverloaded
isOverloaded(outcome) == outcome \in {"status503", "overloaded", "msg503"}

\* a retry loop that waits and goes on after any failure
ShouldRetryAny(outcome, attempt) == attempt < MAX_RETRIES - 1

\* the catch of the retry loop waits and goes on, or rethrows
ShouldRetry(outcome, attempt) == isOverloaded(outcome) /\ attempt < MAX_RETRIES - 1

\* the request reaches the retry loop
RouteStart(r) ==
    /\ route[r].pc = "idle"
    /\ route' = [route EXCEPT ![r].pc = "calling"]
    /\ UNCHANGED <<pageVars, callVars, sandboxVars, retryVars, loopVars, teardownVars,
                   saveVars, storeVars, startVars, reportVars, framingVars>>

\* one pass of the retry loop: generateContentStream settles with outcome
ModelCall(r, outcome) ==
    /\ route[r].pc = "calling"
    /\ LET q == [route[r] EXCEPT !.outcomes = Append(@, outcome)]
       IN  route' = [route EXCEPT ![r] =
               IF outcome = "ok"
               THEN [q EXCEPT !.pc = "streaming", !.response = "ndjson"]
               ELSE IF ShouldRetry(outcome, q.attempt)
               THEN [q EXCEPT !.pc = "waiting",
                              !.waits = Append(@, RETRY_DELAYS[q.attempt + 1])]
               ELSE IF isOverloaded(outcome)
               THEN [q EXCEPT !.pc = "responded", !.response = "ndjson",
                              !.body = <<Line("error", TRUE), Line("done", FALSE)>>]
               ELSE [q EXCEPT !.pc = "responded", !.response = "http500"]]
    /\ UNCHANGED <<pageVars, callVars, sandboxVars, retryVars, loopVars, teardownVars,
                   saveVars, storeVars, startVars, reportVars, framingVars>>

\* the delay has passed: next pass of the loop
RetryDelayOver(r) ==
    /\ route[r].pc = "waiting"
    /\ route' = [route EXCEPT ![r].pc = "calling", ![r].attempt = @ + 1]
    /\ UNCHANGED <<pageVars, callVars, sandboxVars, retryVars, loopVars, teardownVars,
                   saveVars, storeVars, startVars, reportVars, framingVars>>

\* the model's stream yields a chunk, written as a text or tool_call line
RouteEmit(r, type) ==
    /\ route[r].pc = "streaming"
    /\ Len(route[r].body) < MaxBody
    /\ route' = [route EXCEPT ![r].body = Append(@, Line(type, FALSE))]
    /\ UNCHANGED <<pageVars, callVars, sandboxVars, retryVars, loopVars, teardownVars,
                   saveVars, storeVars, startVars, reportVars, framingVars>>

\* the model's stream ends (done) or throws (error); the response is closed
RouteClose(r, type) ==
    /\ route[r].pc = "streaming"
    /\ route' = [route EXCEPT ![r].pc = "responded",
                              ![r].body = Append(@, Line(type, FALSE))]
    /\ UNCHANGED <<pageVars, callVars, sandboxVars, retryVars, loopVars, teardownVars,
                   saveVars, storeVars, startVars, reportVars, framingVars>>

RouteNext ==
    \/ \E r \in 1..MaxRequests : RouteStart(r)
    \/ \E r \in 1..MaxRequests, outcome \in ModelOutcomes : ModelCall(r, outcome)
    \/ \E r \in 1..MaxRequests : RetryDelayOver(r)
    \/ \E r \in 1..MaxRequests, type \in {"text", "tool_call"} : RouteEmit(r, type)
    \/ \E r \in 1..MaxRequests, type \in {"done", "error"} : RouteClose(r, type)

RouteSpec == Init /\ [][RouteNext]_vars

(***************************************************************************)
(* Quantities the claims speak of.                                         *)
(***************************************************************************)
InFlight == {k \in 1..nCalls : calls[k].pc # "done"}

\* automatic self-correction turns started from an error report of version v
FixCalls(v) == {k \in 1..nCalls : calls[k].kind = "auto" /\ calls[k].ver = v}

\* nothing is in flight, posted or waiting for a render
Quiescent == InFlight = {} /\ inbox = <<>> /\ ~Dirty

(***************************************************************************)
(* C1.  The number of consecutive automatic self-correction turns since    *)
(* the last successful render or user message never exceeds max_attempts.  *)
(***************************************************************************)
C1_AttemptsBounded == attempt_count <= max_attempts

(***************************************************************************)
(* C2.  At most one Model Gateway request is in flight for a session.      *)
(***************************************************************************)
C2_SingleFlight == Cardinality(InFlight) <= 1

(***************************************************************************)
(* C3.  However many RENDER_ERROR messages one rendered code version       *)
(* posts, at most one self-correction turn is started for that version.    *)
(***************************************************************************)
C3_OneFixPerVersion == \A v \in 1..version : Cardinality(FixCalls(v)) <= 1

(***************************************************************************)
(* C4.  A first error report for the rendered code version that arrives    *)
(* while attempt_count < max_attempts is not dropped: once the page has    *)
(* come to rest with that version still rendered, a self-correction turn   *)
(* was started for it.                                                     *)
(***************************************************************************)
C4_NoErrorDropped == (Quiescent /\ version \in firstErr) => FixCalls(version) # {}

(***************************************************************************)
(* C5.  After a success report for the current code no automatic turn is   *)
(* started: the next request follows a user message.                       *)
(***************************************************************************)
C5_SuccessStopsLoop ==
    \A k \in 1..nCalls : calls[k].kind = "auto" => ~calls[k].afterSuccess

(***************************************************************************)
(* C7.  An error report of a code version that was replaced by newer code  *)
(* before any outcome of it arrived starts no self-correction turn.        *)
(***************************************************************************)
C7_NoStaleFix ==
    \A k \in 1..nCalls : calls[k].kind = "auto" => calls[k].ver \notin superseded

\* startAgentLoop page: no request in flight, no report or timer pending, and
\* the rendered document has run
LoopQuiescent ==
    /\ InFlight = {}
    /\ inbox = <<>>
    /\ timers = <<>>
    /\ currentCode = iframeCode
    /\ version > 0 => runDone

(***************************************************************************)
(* C8.  Every call that started a request returns the loop to idle: once   *)
(* no request is in flight and no sandbox outcome is outstanding, the      *)
(* status of the startAgentLoop page is "idle".                            *)
(***************************************************************************)
C8_ReturnsToIdle == LoopQuiescent => status = "idle"

(***************************************************************************)
(* C9.  Conversation State only grows by appending: a step never removes,  *)
(* moves or alters a message that is already finalized.                    *)
(***************************************************************************)
C9_AppendOnly ==
    [][\A i \in 1..Len(messages) :
          ~messages[i].isStreaming =>
              i <= Len(messages') /\ messages'[i] = messages[i]]_vars

(***************************************************************************)
(* C10.  The transcript sent with a request is the whole Conversation      *)
(* State at the moment of the call, in order, followed by the new user     *)
(* message or tool result.                                                 *)
(***************************************************************************)
C10_FullTranscript ==
    \A k \in 1..nCalls : calls[k].sent = calls[k].conv \o calls[k].newItems

(***************************************************************************)
(* C11.  Within one turn the first tool call that hands code to the        *)
(* sandbox is the only one: once a call is recorded for the turn, later    *)
(* events of the same stream leave the recorded call unchanged.            *)
(***************************************************************************)
C11_FirstToolCallWins ==
    [][\A k \in 1..nCalls :
          calls[k].receivedFunctionCall # 0 =>
              calls'[k].receivedFunctionCall = calls[k].receivedFunctionCall]_vars

\* the text the well-formed text and error lines of a stream add up to, in order
ExpectedText(lines) ==
    LET textual == SelectSeq(lines, LAMBDA l : l.type \in {"text", "error"})
    IN  [i \in 1..Len(textual) |-> IF textual[i].type = "text" THEN "t" ELSE "E"]

\* the call the well-formed tool_call lines of a stream leave recorded
ExpectedCall(lines) ==
    LET coded == SelectSeq(lines, LAMBDA l : l.type = "tool_call" /\ l.code # 0)
    IN  IF coded = <<>> THEN 0 ELSE coded[Len(coded)].code

(***************************************************************************)
(* C12.  A line that fails to parse changes nothing and does not end the   *)
(* stream loop: while a stream is read, the text accumulated and the call  *)
(* recorded are those of its well-formed lines, in their order.            *)
(***************************************************************************)
C12_MalformedSkipped ==
    \A k \in 1..nCalls :
        calls[k].pc = "read" =>
            /\ calls[k].accumulatedText = ExpectedText(calls[k].lines)
            /\ calls[k].receivedFunctionCall = ExpectedCall(calls[k].lines)

\* a malformed line was read between two text events and the loop still reads
C12_Witness ==
    \E k \in 1..nCalls :
        /\ calls[k].pc = "read"
        /\ calls[k].lines = <<Event("text", 0), Event("malformed", 0), Event("text", 0)>>
        /\ calls[k].accumulatedText = <<"t", "t">>

\* the gateway reported a failure on the stream call k has read
GatewayFailed(k) ==
    \E i \in 1..Len(calls[k].lines) : calls[k].lines[i].type \in {"error", "agent_failed"}

(***************************************************************************)
(* C13.  A turn on which the gateway reported a failure (an error event,   *)
(* or the HTTP 500 error body) ends idle with a finalized assistant        *)
(* message that carries non-empty error text.                              *)
(***************************************************************************)
C13_FailureVisible ==
    \A k \in 1..nCalls :
        (calls[k].pc = "done" /\ GatewayFailed(k)) =>
            /\ ~isLoading
            /\ \E i \in 1..Len(messages) :
                   /\ messages[i].id = assistantMsgId(k)
                   /\ ~messages[i].isStreaming
                   /\ messages[i].content # <<>>

\* failures of the overload class
OverloadClass == {"status503", "overloaded", "msg503"}

\* C14: for one request the gateway calls the model at most 3 times; every
\* call but the last failed with overload and was followed by a wait, the
\* waits being 1000 ms and then 2000 ms, so a non-overload failure is never
\* retried; a third overload failure is answered by an NDJSON stream of one
\* error line with retryable = true followed by done.
C14_GatewayRetries ==
    \A r \in 1..MaxRequests :
        LET q == route[r]
            n == Len(q.outcomes)
        IN  /\ n <= 3
            /\ q.waits \in {<<>>, <<1000>>, <<1000, 2000>>}
            /\ \A i \in 1..(n - 1) : q.outcomes[i] \in OverloadClass
            /\ Len(q.waits) = IF q.pc \in {"idle", "calling", "waiting"} THEN n ELSE n - 1
            /\ q.pc = "waiting" => q.outcomes[n] \in OverloadClass
            /\ (n >= 1 /\ q.pc # "waiting" /\ q.outcomes[n] \notin OverloadClass \cup {"ok"}) =>
                   q.pc = "responded" /\ q.response = "http500"
            /\ (n = 3 /\ q.outcomes[3] \in OverloadClass) =>
                   /\ q.pc = "responded" /\ q.response = "ndjson"
                   /\ q.body = <<Line("error", TRUE), Line("done", FALSE)>>

C14_Witness ==
    \E r \in 1..MaxRequests :
        /\ route[r].outcomes = <<"status503", "overloaded", "msg503">>
        /\ route[r].waits = <<1000, 2000>>
        /\ route[r].pc = "responded"
        /\ route[r].body = <<Line("error", TRUE), Line("done", FALSE)>>

\* C18: every finalized message of the conversation (one no longer streaming)
\* has non-empty text, a tool call or a tool result.
C18_MessageNotEmpty ==
    \A i \in 1..Len(messages) :
        ~messages[i].isStreaming =>
            \/ messages[i].content # <<>>
            \/ messages[i].functionCall # 0
            \/ messages[i].functionResponse # "none"

\* C20: for the code version the sandbox is showing, at most one outcome
\* message (RENDER_SUCCESS or RENDER_ERROR) has been posted to the host.
C20_OneOutcome == nPosted <= 1

\* C15: once the page is torn down no gateway request is in flight: the ones
\* that were in flight are aborted and no new one is started.
C15_TeardownQuiet ==
    unmounted => \A k \in 1..nCalls : calls[k].pc \in {"done", "aborted"}

(***************************************************************************)
(* Debounced auto-save.  An update is a run of the auto-save effect, that  *)
(* is a rendered change of prototypeCode or messages.                      *)
(***************************************************************************)
\* no update was rendered after u
LastUpdate(u) == \A u2 \in updates : u2.at <= u.at

\* the timer armed for the update at time at is pending, or its write was issued
Served(at) ==
    \/ \E t \in saveTimers : t.armed = at
    \/ \E i \in 1..Len(writes) : writes[i].armed = at

\* each write was issued SAVE_DELAY or more after the update it was armed at,
\* with no update rendered in between, and between two writes lies an update
WritesDebounced ==
    /\ \A i \in 1..Len(writes) :
          /\ writes[i].at >= writes[i].armed + SAVE_DELAY
          /\ \E u \in updates : u.at = writes[i].armed /\ u.code = writes[i].code
          /\ \A u \in updates : ~(writes[i].armed < u.at /\ u.at < writes[i].at)
    /\ \A i, j \in 1..Len(writes) : i < j => writes[i].at <= writes[j].armed

C17_SaveFailureSwallowed ==
    [][writes' # writes =>
          UNCHANGED <<messages, prototypeCode, isLoading, messagesRef, isLoadingRef,
                      hasStarted, calls, nCalls, sandboxVars>>]_vars

\* a write has failed (rejected, answered 500, or answered 200 with the file
\* unwritten); the turn whose code it carried has since been finalized, and
\* the conversation shows no failure
C17_Witness ==
    /\ \E i \in 1..Len(writes) :
          /\ writes[i].outcome # "ok"
          /\ Len(writes[i].history) < Len(messages)
    /\ \E k \in 1..nCalls : calls[k].pc = "done"
    /\ prototypeCode # 0
    /\ \A i \in 1..Len(messages) : messages[i].content # <<"Failed">>

\* C19: after savePrototype(id, d), getPrototype(id) returns an entry with the
\* code and history of d and the entries under other ids are as before; a save
\* over an existing entry keeps its created_at and does not decrease updated_at.
C19_SaveThenGet ==
    lastSave.id # 0 =>
        LET got == getPrototype(lastSave.id, TRUE)
            was == lastSave.before[lastSave.id]
        IN  /\ got.code = lastSave.code
            /\ got.history = lastSave.history
            /\ got.updated_at # 0
            /\ \A i \in Ids \ {lastSave.id} : getPrototype(i, TRUE) = lastSave.before[i]
            /\ was.created_at # 0 => got.created_at = was.created_at
            /\ got.updated_at >= was.updated_at

(***************************************************************************)
(* The store entry of this page's prototype id as the page's own writes    *)
(* leave it: a write is in the file only when its outcome is "ok".         *)
(***************************************************************************)
RECURSIVE StoredCode(_)
StoredCode(n) ==
    IF n = 0 THEN (IF isLoadedFromCache THEN CachedCode ELSE 0)
    ELSE IF writes[n].outcome = "ok" THEN writes[n].code
    ELSE StoredCode(n - 1)

\* C30: whenever the rendered page shows Saved for a prototype with code, the
\* stored entry's code is the current prototype code; in particular a save
\* that failed has not set the indicator.
C30_SavedMeansStored ==
    (isSaved /\ prototypeCode # 0 /\ ~Dirty) => StoredCode(Len(writes)) = prototypeCode

RECURSIVE StoredHistory(_)
StoredHistory(n) ==
    IF n = 0 THEN (IF isLoadedFromCache THEN CachedHistory ELSE <<>>)
    ELSE IF writes[n].outcome = "ok" THEN writes[n].history
    ELSE StoredHistory(n - 1)

\* C29: once the rendered page has had no update for longer than the idle
\* window, the store holds the current prototype code together with the
\* current conversation in its stored form.
C29_StoreCatchesUp ==
    (/\ prototypeCode # 0
     /\ ~Dirty
     /\ updates # {}
     /\ \A u \in updates : now > u.at + SAVE_DELAY) =>
        /\ StoredCode(Len(writes)) = prototypeCode
        /\ StoredHistory(Len(writes)) = buildHistoryForApi(messages)

\* the initial generation requests of the session
InitCalls == {k \in 1..nCalls : calls[k].kind = "init"}

\* C27: the initial generation request is issued at most once, only after the
\* cache check has completed, and not at all when the cache held code.
C27_InitialRequestOnce ==
    /\ Cardinality(InitCalls) <= 1
    /\ InitCalls # {} => cacheCheckComplete
    /\ isLoadedFromCache => InitCalls = {}

\* the paper text arrived after the cache lookup had missed, and the one
\* initial request was then issued and has run to its end
C27_Witness ==
    /\ paperContext = "loaded"
    /\ cacheCheckComplete /\ ~isLoadedFromCache
    /\ \E k \in InitCalls : calls[k].pc = "done"

\* a transcript item of the model that carries a function call
IsCallItem(item) ==
    item.role = "model" /\ \E j \in 1..Len(item.parts) : item.parts[j].kind = "functionCall"

\* C22: when a turn of the startAgentLoop page ends by appending a model item
\* to the transcript, that turn has not already appended a tool-call item:
\* a turn appends one assistant message, not a tool-call message and then a
\* text-only one.
C22_OneAssistantMessage ==
    [][\A k \in 1..nCalls :
          (/\ calls[k].pc # "done" /\ calls'[k].pc = "done"
           /\ Len(history') = Len(history) + 1
           /\ history'[Len(history')].role = "model") =>
              ~\E i \in (Len(calls[k].sent) + 1)..Len(history) : IsCallItem(history[i])]_vars

\* item is the new user message or tool result newItem of a turn, as the
\* client wrote it or as the route writes it
SameTurnItem(item, newItem) ==
    /\ item.role = newItem.role
    /\ Len(item.parts) = 1
    /\ item.parts[1].kind = newItem.parts[1].kind
    /\ item.parts[1].text = newItem.parts[1].text
    /\ item.parts[1].response \in {newItem.parts[1].response,
                                   Enhanced(newItem.parts[1].response)}

\* C26: in the contents the route passes to the model for a request of the
\* startAgentLoop page, behind the transcript the turn started from, the
\* turn's new user message or tool result appears exactly once.
C26_NewItemOnce ==
    \A k \in 1..nCalls :
        LET c == calls[k]
            base == Len(c.sent) - Len(c.newItems)
        IN  \A n \in 1..Len(c.newItems) :
                Cardinality({i \in (base + 1)..Len(c.contents) :
                                 SameTurnItem(c.contents[i], c.newItems[n])}) = 1

\* C24: a tool result with success = true written by a turn of this session
\* is in the conversation only if the sandbox has reported RENDER_SUCCESS for
\* the code that turn's tool call carried.
C24_SuccessOnlyIfRendered ==
    \A i \in 1..Len(messages) :
        \A k \in 1..nCalls :
            (messages[i].id = responseMsgId(k) /\ messages[i].functionResponse = "success")
                => calls[k].receivedFunctionCall \in renderedOk

\* C25: the turn an automatic self-correction starts puts into the
\* conversation one tool result (a message carrying a functionResponse and no
\* text) and no user-role text message.
C25_FixTurnAppendsToolResult ==
    \A k \in 1..nCalls :
        calls[k].kind = "auto"
            => \A i \in 1..Len(messages) :
                   messages[i].id = userMsgId(k)
                       => /\ messages[i].functionResponse # "none"
                          /\ messages[i].content = <<>>

(***************************************************************************)
(* The response body as bytes.  The route enqueues each event as the text  *)
(* JSON.stringify(event) + "\n"; the transport hands the page's reader the  *)
(* bytes in order, cut into chunks wherever it likes; the stream loop      *)
(* splits each chunk on "\n" by itself and keeps nothing between chunks.    *)
(***************************************************************************)
\* the events written in one response
MaxWritten == 2
\* the length of JSON.stringify(event), in bytes
LineLen == 2

Byte(ev, pos) == [ev |-> ev, pos |-> pos]
Newline == Byte(Event("newline", 0), 0)

\* encoder.encode(JSON.stringify(ev) + "\n")
Encode(ev) == [i \in 1..(LineLen + 1) |-> IF i <= LineLen THEN Byte(ev, i) ELSE Newline]

\* chunk.split("\n")
RECURSIVE Split(_)
Split(bytes) ==
    IF bytes = <<>> THEN << <<>> >>
    ELSE LET rest == Split(Tail(bytes))
         IN  IF Head(bytes) = Newline
             THEN << <<>> >> \o rest
             ELSE << <<Head(bytes)>> \o Head(rest) >> \o Tail(rest)

\* JSON.parse(line) returns: line is the whole text of one event
Parses(line) == Len(line) = LineLen /\ \A i \in 1..LineLen : line[i].pos = i

\* the events the for loop over lines acts on: blank lines are filtered out,
\* a line JSON.parse rejects reaches the empty catch
RECURSIVE ParsedEvents(_)
ParsedEvents(lines) ==
    IF lines = <<>> THEN <<>>
    ELSE IF Head(lines) # <<>> /\ Parses(Head(lines))
         THEN <<Head(lines)[1].ev>> \o ParsedEvents(Tail(lines))
         ELSE ParsedEvents(Tail(lines))

\* controller.enqueue of one event line
Enqueue(ev) ==
    /\ Len(written) < MaxWritten
    /\ written' = Append(written, ev)
    /\ wire' = wire \o Encode(ev)
    /\ UNCHANGED acted
    /\ UNCHANGED <<pageVars, callVars, sandboxVars, retryVars, loopVars>>
    /\ UNCHANGED <<serverVars, teardownVars, saveVars, storeVars, startVars, reportVars>>

\* one pass of the stream loop: reader.read() yields the next n bytes
ReadBytes(n) ==
    /\ n \in 1..Len(wire)
    /\ wire' = SubSeq(wire, n + 1, Len(wire))
    /\ acted' = acted \o ParsedEvents(Split(SubSeq(wire, 1, n)))
    /\ UNCHANGED written
    /\ UNCHANGED <<pageVars, callVars, sandboxVars, retryVars, loopVars>>
    /\ UNCHANGED <<serverVars, teardownVars, saveVars, storeVars, startVars, reportVars>>

FramingNext ==
    \/ \E ev \in Events : Enqueue(ev)
    \/ \E n \in 1..(MaxWritten * (LineLen + 1)) : ReadBytes(n)

FramingSpec == Init /\ [][FramingNext]_vars

\* C23: once the reader has read every byte the route wrote, the events the
\* stream loop acted on are the events written, in order, however the bytes
\* were cut into chunks.
C23_FramingExact == (wire = <<>>) => acted = written

\* C28: whenever the kick-off effect runs again after its cleanup and
\* hasStarted is true, an initial agent request that was not aborted exists.
C28_InitialRequestSurvives ==
    [][(unmounted /\ ~unmounted' /\ hasStarted')
          => \E k \in 1..nCalls' : calls'[k].kind = "init" /\ calls'[k].pc # "aborted"]_vars

(***************************************************************************)
(* One run of sendMessage as a function of the conversation it starts      *)
(* from, the text submitted and the events its stream loop acts on.        *)
(***************************************************************************)
\* accumulatedText after the stream loop has acted on events
RECURSIVE StreamText(_, _)
StreamText(text, events) ==
    IF events = <<>> THEN text
    ELSE StreamText(Accumulate(text, Head(events)), Tail(events))

\* receivedFunctionCall after the stream loop has acted on events
RECURSIVE StreamCall(_, _)
StreamCall(fc, events) ==
    IF events = <<>> THEN fc
    ELSE LET ev == Head(events)
         IN  StreamCall(IF ev.type = "tool_call" /\ ev.code # 0 THEN ev.code ELSE fc,
                        Tail(events))

\* messages when sendMessage returns, no other update of messages intervening
RunResult(conv, content, events) ==
    LET k == 1
        userMsg == Message(userMsgId(k), "user", content, FALSE, 0, "none")
        assistantMsg == Message(assistantMsgId(k), "assistant", <<>>, TRUE, 0, "none")
        text == StreamText(<<>>, events)
        streamed == IF text # <<>>
                    THEN SetContent(conv \o <<userMsg, assistantMsg>>, assistantMsgId(k), text)
                    ELSE conv \o <<userMsg, assistantMsg>>
        fc == StreamCall(0, events)
        updated == Finalized(streamed, assistantMsgId(k), fc)
        functionResponseMsg == Message(responseMsgId(k), "user", <<>>, FALSE, 0, "success")
    IN  IF fc # 0 THEN Append(updated, functionResponseMsg) ELSE updated

\* role, text, tool call and tool result of every message, ids aside
Visible(msgs) ==
    [i \in 1..Len(msgs) |->
        [role |-> msgs[i].role, content |-> msgs[i].content,
         functionCall |-> msgs[i].functionCall,
         functionResponse |-> msgs[i].functionResponse]]

\* C21: a run of sendMessage whose reader has read the whole response ends
\* with the conversation that the run reading the same written events whole
\* ends with: same length, same role, text, tool call and tool result at
\* every position.
C21_SameEventsSameConversation ==
    (wire = <<>>) =>
        \A conv \in {<<>>, CachedMessages(CachedHistory)} :
            Visible(RunResult(conv, <<"ask">>, acted))
                = Visible(RunResult(conv, <<"ask">>, written))

=============================================================================
